---- MODULE Spec2Model ----
(***************************************************************************)
(* Authentication and brute-force protection of the todo backend:          *)
(*   backend/src/services/rate_limit.py   the in-memory RateLimiter        *)
(*   backend/src/services/auth_service.py credential checks on the store   *)
(*   backend/src/api/auth.py              the signup and signin handlers   *)
(*   backend/src/models/user.py           the users table and validators   *)
(*                                                                         *)
(* Every request is a process p.  pc[p] is the place the request has       *)
(* reached; a step is the code between two places where another request    *)
(* can run: an acquisition of RateLimiter.lock or a database round trip.   *)
(* Time is in minutes.  The column created_at is left out: no modelled     *)
(* decision reads it.                                                      *)
(***************************************************************************)
EXTENDS Integers, Sequences, FiniteSets, TLC

(* ------------------------------ bounds -------------------------------- *)

\* the clock stops advancing here
MaxTime == 23
\* the amounts by which the clock advances in one step
TickSteps == {7, 8}
\* the concurrent requests
Procs == {1, 2}
\* the timestamps direct callers of record_failed_attempt may store
MaxWindow == 6
\* the clock of the token lifetime stops advancing here
MaxTokenTime == 1442
\* the amounts by which the clock advances between uses of a token
TokenTickSteps == {720, 721}

\* the todos created in a run
MaxTodos == 2

(* ------------------------- program constants -------------------------- *)

\* rate_limit.py:137  RateLimiter(max_attempts=5, ...)
MAX_ATTEMPTS == 5
\* rate_limit.py:137  RateLimiter(..., lockout_minutes=15)
LOCKOUT_MINUTES == 15
\* auth_service.py:200  if user.failed_login_attempts >= 5
DB_MAX_FAILED == 5
\* auth_service.py:201  timedelta(minutes=15)
DB_LOCK_MINUTES == 15
\* config.py:17
ACCESS_TOKEN_EXPIRE_MINUTES == 1440

HTTP_200_OK == 200
HTTP_201_CREATED == 201
HTTP_204_NO_CONTENT == 204
HTTP_400_BAD_REQUEST == 400
HTTP_401_UNAUTHORIZED == 401
HTTP_404_NOT_FOUND == 404
HTTP_409_CONFLICT == 409
HTTP_429_TOO_MANY_REQUESTS == 429
HTTP_500_INTERNAL_SERVER_ERROR == 500

MSG_LOCKED == "Account temporarily locked due to multiple failed login attempts. Please try again in 15 minutes."
MSG_INVALID == "Invalid credentials"
MSG_DUPLICATE == "Email already registered"
MSG_BAD_CLAIMS == "Invalid authentication credentials"
MSG_EXPIRED == "Token has expired"
MSG_NOT_VALIDATED == "Could not validate credentials"
MSG_NO_USER == "User not found"
MSG_NOT_FOUND == "The requested resource does not exist"
MSG_UNEXPECTED == "An unexpected error occurred"

(* ------------------------------ strings ------------------------------- *)

\* a string is a sequence of one-character strings
LowerChar(c) ==
    CASE c = "A" -> "a"
      [] c = "B" -> "b"
      [] OTHER -> c

\* str.lower()
Lower(s) == [i \in 1..Len(s) |-> LowerChar(s[i])]

IsSpace(c) == c = " "

RECURSIVE LStrip(_)
LStrip(s) == IF s # <<>> /\ IsSpace(Head(s)) THEN LStrip(Tail(s)) ELSE s

RECURSIVE RStrip(_)
RStrip(s) ==
    IF s # <<>> /\ IsSpace(s[Len(s)]) THEN RStrip(SubSeq(s, 1, Len(s) - 1)) ELSE s

\* str.strip()
Strip(s) == RStrip(LStrip(s))

\* a validator that returns the email as typed
email_to_lowercase_AsTyped(v) == v

\* UserSignUp.email_to_lowercase, UserSignIn.email_to_lowercase
email_to_lowercase(v) == Strip(Lower(v))

\* the email addresses the signup and signin requests carry, as the client
\* typed them: two spellings of one address
RawEmails == { <<"a">>, <<"A", " ">> }

\* the keys of the tracker
Emails == { email_to_lowercase(r) : r \in RawEmails } \cup { <<"b">> }

\* the password the account is registered with, and the passwords tried
SignupPasswords == { <<"A", "b", "c", "d", "1", "2", "3", "!">> }
SigninPasswords == { <<"A", "b", "c", "d", "1", "2", "3", "!">>,
                     <<"W", "x", "y", "z", "7", "8", "9", "?">> }

(* --------------------------- credential hasher ------------------------ *)

\* CryptContext(schemes=["bcrypt"]): bcrypt reads the first 72 bytes of
\* the secret (a character of a password is one byte here)
BCRYPT_MAX_BYTES == 72

Truncate(password) ==
    SubSeq(password, 1,
           IF Len(password) < BCRYPT_MAX_BYTES THEN Len(password)
           ELSE BCRYPT_MAX_BYTES)

\* pwd_context.hash: the scheme and cost, and the digest of the bytes read
hash_password(password) == <<"$2b$12$", Truncate(password)>>

\* pwd_context.verify: hashes the bytes read of the candidate and compares
verify_password(plain_password, hashed_password) ==
    hashed_password = <<"$2b$12$", Truncate(plain_password)>>

(* ------------------------------- tokens ------------------------------- *)

SECRET_KEY == "secret"

NoToken == [sub |-> 0, email |-> <<>>, exp |-> -1, iat |-> -1, key |-> ""]

create_access_token(user_id, email, t) ==
    [sub |-> user_id, email |-> email,
     exp |-> t + ACCESS_TOKEN_EXPIRE_MINUTES, iat |-> t, key |-> SECRET_KEY]

\* a token whose signature has a byte altered: it verifies under no key
Tamper(token) == [token EXCEPT !.key = "tampered"]

\* a decode that does not verify the signature
jwt_decode_Unsigned(token, key, t) ==
    IF token.exp < t THEN "ExpiredSignatureError" ELSE "payload"

\* jose.jwt.decode(token, key, algorithms): the signature is verified, then
\* the claim exp against the clock; both failures are JWTError
jwt_decode(token, key, t) ==
    IF token.key # key THEN "JWTError"
    ELSE IF token.exp < t THEN "ExpiredSignatureError"
    ELSE "payload"

\* the offset of the server's local time from UTC, in minutes: auth.py:222
\* takes the timestamp of the naive utcnow() as local time
LOCAL_UTC_OFFSET == 0

(* ----------------------------- users table ---------------------------- *)

\* None, for a nullable timestamp
NoTime == -1

NoRow == [id |-> 0, email |-> <<>>, password_hash |-> <<>>, is_active |-> FALSE,
          failed_login_attempts |-> 0, locked_until |-> NoTime,
          last_login_at |-> NoTime]

\* None, for a todo; title stands for the columns a PUT can set
NoTodo == [id |-> 0, user_id |-> 0, title |-> "", completed |-> FALSE]

TodoColumns == {"id", "user_id", "title", "completed"}

UserColumns == {"id", "email", "password_hash", "is_active",
                "failed_login_attempts", "locked_until", "last_login_at"}

VARIABLES
    now,        \* datetime.utcnow(), in minutes
    attempts,   \* RateLimiter.attempts: email -> list of datetimes
    lock,       \* RateLimiter.lock: the request that holds it, or NoOwner
    users,      \* the rows of table users, in insertion order
    pc,         \* where each request is
    req,        \* the validated credentials of each request
    loc,        \* the local variables of each request
    sess,       \* the User object in each request's session, as loaded
    resp,       \* the response each request got
    log,        \* history: the failures recorded per key and not yet
                \* cleared or aged out
    todos       \* the rows of table todos by id; NoTodo where one was deleted

vars == <<now, attempts, lock, users, pc, req, loc, sess, resp, log, todos>>

NoOwner == 0

\* raw is history: the email as the client typed it, where a specification
\* keeps it.  after_success is history: -1, or, when the request is a signin and the
\* caller's previous request was a signin for the same email that succeeded,
\* 1 if that success cleared recorded failures and 0 if it found none
NoReq == [op |-> "none", email |-> <<>>, password |-> <<>>, after_success |-> -1,
          token |-> NoToken, raw |-> <<>>, todo_id |-> 0, title |-> "",
          completed |-> FALSE]

Request(p, op, email, password) ==
    [op |-> op, email |-> email, password |-> password,
     after_success |-> IF /\ op = "signin"
                          /\ resp[p].op = "signin"
                          /\ resp[p].status = HTTP_200_OK
                          /\ req[p].email = email
                       THEN resp[p].cleared ELSE -1,
     token |-> NoToken, raw |-> <<>>, todo_id |-> 0, title |-> "",
     completed |-> FALSE]

NoLoc == [caller |-> "none", pruned |-> <<>>, user |-> NoRow, cause |-> "none",
          todo |-> NoTodo]

\* cause and cleared are history: the branch of the handler that produced
\* the response, and 1 if a successful signin cleared recorded failures
NoResp == [op |-> "none", status |-> 0, detail |-> "", token |-> NoToken,
           user |-> NoRow, flag |-> FALSE, value |-> NoTime, cause |-> "none",
           cleared |-> 0, todo |-> NoTodo, todos |-> <<>>]

\* an HTTP response of a handler
Response(op, status, detail, cause) ==
    [NoResp EXCEPT !.op = op, !.status = status, !.detail = detail,
                   !.cause = cause]

\* the value a tracker method returns to a caller outside the handlers
Returned(op, flag, value) ==
    [NoResp EXCEPT !.op = op, !.flag = flag, !.value = value]

Init ==
    /\ now = 0
    /\ attempts = [e \in Emails |-> <<>>]
    /\ lock = NoOwner
    /\ users = <<>>
    /\ pc = [p \in Procs |-> "idle"]
    /\ req = [p \in Procs |-> NoReq]
    /\ loc = [p \in Procs |-> NoLoc]
    /\ sess = [p \in Procs |-> NoRow]
    /\ resp = [p \in Procs |-> NoResp]
    /\ log = [e \in Emails |-> <<>>]
    /\ todos = <<>>

(* ------------------------------ the clock ----------------------------- *)

\* a check of the window that counts itself as an attempt
PruneOld_Counting(list, t) ==
    Append(SelectSeq(list, LAMBDA a : t - a < LOCKOUT_MINUTES), t)

\* a prune that keeps the timestamps whose age is exactly the window
PruneOld_Inclusive(list, t) == SelectSeq(list, LAMBDA a : t - a <= LOCKOUT_MINUTES)

\* the list comprehensions of is_locked and get_remaining_attempts
PruneOld(list, t) == SelectSeq(list, LAMBDA a : t - a < LOCKOUT_MINUTES)

Tick(d) ==
    /\ now + d <= MaxTime
    /\ now' = now + d
    /\ log' = [e \in Emails |-> PruneOld(log[e], now + d)]
    /\ UNCHANGED <<attempts, lock, users, pc, req, loc, sess, resp, todos>>

(* ------------------------ RateLimiter (tracker) ----------------------- *)

\* a lock that excludes nobody
LockFree_Off == TRUE

\* threading.Lock.acquire: blocks while any thread, the caller included,
\* holds the lock
LockFree == lock = NoOwner

Min(list) == CHOOSE a \in {list[i] : i \in 1..Len(list)} :
                 \A i \in 1..Len(list) : a <= list[i]

\* a request ends: its response is recorded and its locals are dropped
Finish(p, r) ==
    /\ resp' = [resp EXCEPT ![p] = r]
    /\ pc' = [pc EXCEPT ![p] = "done"]
    /\ loc' = [loc EXCEPT ![p] = NoLoc]
    /\ sess' = [sess EXCEPT ![p] = NoRow]

\* is_locked: with self.lock
IsLockedAcquire(p) ==
    /\ pc[p] = "il_acquire"
    /\ LockFree
    /\ lock' = p
    /\ pc' = [pc EXCEPT ![p] = "il_prune"]
    /\ UNCHANGED <<now, attempts, users, req, loc, sess, resp, log, todos>>

\* is_locked: now = utcnow(); the list comprehension reads attempts[email]
IsLockedPrune(p) ==
    /\ pc[p] = "il_prune"
    /\ loc' = [loc EXCEPT ![p].pruned = PruneOld(attempts[req[p].email], now)]
    /\ pc' = [pc EXCEPT ![p] = "il_return"]
    /\ UNCHANGED <<now, attempts, lock, users, req, sess, resp, log, todos>>

\* is_locked: the pruned list is stored, the verdict returned and the lock
\* released; then the caller goes on:
\*   signin (auth.py:131)       to get_lockout_expiry or to the store
\*   get_lockout_expiry (:125)  to the rest of its body, lines 126-133
\*   any other caller           gets the verdict
IsLockedReturn(p) ==
    LET e == req[p].email
        verdict == Len(loc[p].pruned) >= MAX_ATTEMPTS
        expiry == IF verdict /\ loc[p].pruned # <<>>
                  THEN Min(loc[p].pruned) + LOCKOUT_MINUTES ELSE NoTime
    IN
    /\ pc[p] = "il_return"
    /\ attempts' = [attempts EXCEPT ![e] = loc[p].pruned]
    /\ lock' = NoOwner
    /\ CASE loc[p].caller = "signin" ->
              /\ pc' = [pc EXCEPT ![p] = IF verdict THEN "gle_acquire"
                                         ELSE "db_locked"]
              /\ UNCHANGED <<loc, sess, resp>>
         [] loc[p].caller = "gle_signin" ->
              Finish(p, Response("signin", HTTP_429_TOO_MANY_REQUESTS,
                                 MSG_LOCKED, "tracker_locked"))
         [] loc[p].caller = "gle_direct" ->
              Finish(p, Returned("get_lockout_expiry", verdict, expiry))
         [] OTHER ->
              Finish(p, Returned("is_locked", verdict, NoTime))
    /\ UNCHANGED <<now, users, req, log, todos>>

\* get_lockout_expiry: with self.lock, then the call self.is_locked(email)
GetLockoutExpiryAcquire(p) ==
    /\ pc[p] = "gle_acquire"
    /\ LockFree
    /\ lock' = p
    /\ loc' = [loc EXCEPT ![p].caller =
                  IF @ = "signin" THEN "gle_signin" ELSE "gle_direct"]
    /\ pc' = [pc EXCEPT ![p] = "il_acquire"]
    /\ UNCHANGED <<now, attempts, users, req, sess, resp, log, todos>>

\* an answer that tells a missing account from a wrong password
InvalidCredentials_Leaky(cause) ==
    IF cause = "no_user"
    THEN Response("signin", 404, "User not found", cause)
    ELSE Response("signin", HTTP_401_UNAUTHORIZED, MSG_INVALID, cause)

\* signin, lines 153-156: the one answer to every failed credential check
InvalidCredentials(cause) ==
    Response("signin", HTTP_401_UNAUTHORIZED, MSG_INVALID, cause)

\* record_failed_attempt: with self.lock
RecordFailedAttemptAcquire(p) ==
    /\ pc[p] = "rfa_acquire"
    /\ LockFree
    /\ lock' = p
    /\ pc' = [pc EXCEPT ![p] = "rfa_append"]
    /\ UNCHANGED <<now, attempts, users, req, loc, sess, resp, log, todos>>

\* record_failed_attempt: the append and the release; signin then raises
\* 401 (auth.py:153-156)
RecordFailedAttempt(p) ==
    LET e == req[p].email IN
    /\ pc[p] = "rfa_append"
    /\ attempts' = [attempts EXCEPT ![e] = Append(@, now)]
    /\ log' = [log EXCEPT ![e] = Append(@, now)]
    /\ lock' = NoOwner
    /\ IF loc[p].caller = "signin"
       THEN Finish(p, InvalidCredentials(loc[p].cause))
       ELSE Finish(p, Returned("record_failed_attempt", FALSE, NoTime))
    /\ UNCHANGED <<now, users, req, todos>>

\* clear_attempts: with self.lock
ClearAttemptsAcquire(p) ==
    /\ pc[p] = "ca_acquire"
    /\ LockFree
    /\ lock' = p
    /\ pc' = [pc EXCEPT ![p] = "ca_assign"]
    /\ UNCHANGED <<now, attempts, users, req, loc, sess, resp, log, todos>>

\* a clear_attempts that empties the whole dictionary
ClearAttempts_All(p) ==
    LET e == req[p].email
        u == loc[p].user
    IN
    /\ pc[p] = "ca_assign"
    /\ attempts' = [k \in Emails |-> <<>>]
    /\ log' = [log EXCEPT ![e] = <<>>]
    /\ lock' = NoOwner
    /\ IF loc[p].caller = "signin"
       THEN Finish(p, [Response("signin", HTTP_200_OK, "", "ok") EXCEPT
                          !.token = create_access_token(u.id, u.email, now),
                          !.user = u,
                          !.cleared = IF attempts[e] = <<>> THEN 0 ELSE 1])
       ELSE Finish(p, Returned("clear_attempts", FALSE, NoTime))
    /\ UNCHANGED <<now, users, req, todos>>

\* clear_attempts: the assignment and the release; signin then issues the
\* token and answers (auth.py:162-170)
ClearAttempts(p) ==
    LET e == req[p].email
        u == loc[p].user
    IN
    /\ pc[p] = "ca_assign"
    /\ attempts' = [attempts EXCEPT ![e] = <<>>]
    /\ log' = [log EXCEPT ![e] = <<>>]
    /\ lock' = NoOwner
    /\ IF loc[p].caller = "signin"
       THEN Finish(p, [Response("signin", HTTP_200_OK, "", "ok") EXCEPT
                          !.token = create_access_token(u.id, u.email, now),
                          !.user = u,
                          !.cleared = IF attempts[e] = <<>> THEN 0 ELSE 1])
       ELSE Finish(p, Returned("clear_attempts", FALSE, NoTime))
    /\ UNCHANGED <<now, users, req, todos>>

\* get_remaining_attempts: with self.lock
GetRemainingAttemptsAcquire(p) ==
    /\ pc[p] = "gra_acquire"
    /\ LockFree
    /\ lock' = p
    /\ pc' = [pc EXCEPT ![p] = "gra_prune"]
    /\ UNCHANGED <<now, attempts, users, req, loc, sess, resp, log, todos>>

\* get_remaining_attempts: now = utcnow(); the list comprehension
GetRemainingAttemptsPrune(p) ==
    /\ pc[p] = "gra_prune"
    /\ loc' = [loc EXCEPT ![p].pruned = PruneOld(attempts[req[p].email], now)]
    /\ pc' = [pc EXCEPT ![p] = "gra_return"]
    /\ UNCHANGED <<now, attempts, lock, users, req, sess, resp, log, todos>>

\* the smaller of the two in place of the larger
Max_Least(a, b) == IF a >= b THEN b ELSE a

\* a maximum that does not clamp: its second argument
Max_Unclamped(a, b) == b

\* max(a, b)
Max(a, b) == IF a >= b THEN a ELSE b

\* get_remaining_attempts: the pruned list is stored, the count returned
GetRemainingAttemptsReturn(p) ==
    LET e == req[p].email IN
    /\ pc[p] = "gra_return"
    /\ attempts' = [attempts EXCEPT ![e] = loc[p].pruned]
    /\ lock' = NoOwner
    /\ Finish(p, Returned("get_remaining_attempts", FALSE,
                          Max(0, MAX_ATTEMPTS - Len(loc[p].pruned))))
    /\ UNCHANGED <<now, users, req, log, todos>>

(* ----------------------------- Account Store -------------------------- *)

\* a lookup that does not filter on is_active
ActiveRows_Any(rows, email) ==
    {i \in 1..Len(rows) : rows[i].email = Lower(email)}

ActiveRows(rows, email) ==
    {i \in 1..Len(rows) : rows[i].email = Lower(email) /\ rows[i].is_active}

\* get_user_by_email: select ... where email = email.lower() and is_active;
\* scalar_one_or_none
get_user_by_email(rows, email) ==
    IF ActiveRows(rows, email) = {} THEN NoRow
    ELSE rows[CHOOSE i \in ActiveRows(rows, email) : TRUE]

\* a column without the unique constraint
UniqueViolation_Off(rows, email) == FALSE

\* the unique constraint on users.email
UniqueViolation(rows, email) == \E i \in 1..Len(rows) : rows[i].email = email

\* a row that starts with a failure counted
NewUser_Counted(id, email, password) ==
    [id |-> id, email |-> Lower(email), password_hash |-> hash_password(password),
     is_active |-> TRUE, failed_login_attempts |-> 1, locked_until |-> NoTime,
     last_login_at |-> NoTime]

\* the User(...) of create_user; id stands for uuid4()
NewUser(id, email, password) ==
    [id |-> id, email |-> Lower(email), password_hash |-> hash_password(password),
     is_active |-> TRUE, failed_login_attempts |-> 0, locked_until |-> NoTime,
     last_login_at |-> NoTime]

\* a check that never finds the row locked
RowLocked_Never(user, t) == FALSE

\* locked_until and locked_until > utcnow()
RowLocked(user, t) == user.locked_until # NoTime /\ user.locked_until > t

\* verify_user_credentials, lines 196-201: the failed attempt on the object
FailedAttempt(user, t) ==
    LET n == user.failed_login_attempts + 1 IN
    [user EXCEPT !.failed_login_attempts = n,
                 !.locked_until = IF n >= DB_MAX_FAILED
                                  THEN t + DB_LOCK_MINUTES ELSE @]

\* a success that forgets to reset the counter
Succeeded_KeepsCounter(user, t) ==
    [user EXCEPT !.locked_until = NoTime, !.last_login_at = t]

\* verify_user_credentials, lines 207-209: the success on the object
Succeeded(user, t) ==
    [user EXCEPT !.failed_login_attempts = 0, !.locked_until = NoTime,
                 !.last_login_at = t]

\* session.commit(): the UPDATE sets the columns whose value on the object
\* differs from the loaded one; the other columns keep what the table holds
Flush(rows, loaded, obj) ==
    [rows EXCEPT ![obj.id] =
        [c \in UserColumns |-> IF obj[c] # loaded[c] THEN obj[c] ELSE @[c]]]

(* ------------------------------- signin ------------------------------- *)

Idle(p) == pc[p] \in {"idle", "done"}

\* POST /api/auth/signin: UserSignIn validates and normalizes the email,
\* then the handler calls rate_limiter.is_locked
SigninStart(p, raw, password) ==
    /\ Idle(p)
    /\ req' = [req EXCEPT ![p] = Request(p, "signin", email_to_lowercase(raw),
                                          password)]
    /\ loc' = [loc EXCEPT ![p] = [NoLoc EXCEPT !.caller = "signin"]]
    /\ resp' = [resp EXCEPT ![p] = NoResp]
    /\ pc' = [pc EXCEPT ![p] = "il_acquire"]
    /\ UNCHANGED <<now, attempts, lock, users, sess, log, todos>>

\* signin, lines 139-143, and is_account_locked
IsAccountLocked(p) ==
    LET user == get_user_by_email(users, req[p].email) IN
    /\ pc[p] = "db_locked"
    /\ IF user # NoRow /\ RowLocked(user, now)
       THEN Finish(p, Response("signin", HTTP_429_TOO_MANY_REQUESTS,
                               MSG_LOCKED, "db_locked"))
       ELSE /\ pc' = [pc EXCEPT ![p] = "verify"]
            /\ UNCHANGED <<loc, sess, resp>>
    /\ UNCHANGED <<now, attempts, lock, users, req, log, todos>>

\* verify_user_credentials, lines 183-201 and 206-209: the select and the
\* code up to the commit
VerifyUserCredentials(p) ==
    LET user == get_user_by_email(users, req[p].email) IN
    /\ pc[p] = "verify"
    /\ sess' = [sess EXCEPT ![p] = user]
    /\ CASE user = NoRow ->
              /\ loc' = [loc EXCEPT ![p].cause = "no_user"]
              /\ pc' = [pc EXCEPT ![p] = "rfa_acquire"]
         [] user # NoRow /\ RowLocked(user, now) ->
              /\ loc' = [loc EXCEPT ![p].cause = "row_locked"]
              /\ pc' = [pc EXCEPT ![p] = "rfa_acquire"]
         [] user # NoRow /\ ~RowLocked(user, now)
               /\ ~verify_password(req[p].password, user.password_hash) ->
              /\ loc' = [loc EXCEPT ![p].cause = "bad_password",
                                    ![p].user = FailedAttempt(user, now)]
              /\ pc' = [pc EXCEPT ![p] = "commit_failed"]
         [] OTHER ->
              /\ loc' = [loc EXCEPT ![p].cause = "ok",
                                    ![p].user = Succeeded(user, now)]
              /\ pc' = [pc EXCEPT ![p] = "commit_success"]
    /\ UNCHANGED <<now, attempts, lock, users, req, resp, log, todos>>

\* verify_user_credentials, lines 203-204, then signin calls
\* record_failed_attempt
CommitFailed(p) ==
    /\ pc[p] = "commit_failed"
    /\ users' = Flush(users, sess[p], loc[p].user)
    /\ pc' = [pc EXCEPT ![p] = "rfa_acquire"]
    /\ UNCHANGED <<now, attempts, lock, req, loc, sess, resp, log, todos>>

\* verify_user_credentials, line 210
CommitSuccess(p) ==
    /\ pc[p] = "commit_success"
    /\ users' = Flush(users, sess[p], loc[p].user)
    /\ pc' = [pc EXCEPT ![p] = "refresh"]
    /\ UNCHANGED <<now, attempts, lock, req, loc, sess, resp, log, todos>>

\* verify_user_credentials, lines 211-213, then signin calls clear_attempts
RefreshUser(p) ==
    /\ pc[p] = "refresh"
    /\ loc' = [loc EXCEPT ![p].user = users[loc[p].user.id]]
    /\ sess' = [sess EXCEPT ![p] = users[loc[p].user.id]]
    /\ pc' = [pc EXCEPT ![p] = "ca_acquire"]
    /\ UNCHANGED <<now, attempts, lock, users, req, resp, log, todos>>

(* ------------------------------- signup ------------------------------- *)

\* POST /api/auth/signup: UserSignUp validates the password and normalizes
\* the email, then the handler calls create_user
SignupStart(p, raw, password) ==
    /\ Idle(p)
    /\ req' = [req EXCEPT ![p] = Request(p, "signup", email_to_lowercase(raw),
                                          password)]
    /\ loc' = [loc EXCEPT ![p] = [NoLoc EXCEPT !.caller = "signup"]]
    /\ resp' = [resp EXCEPT ![p] = NoResp]
    /\ pc' = [pc EXCEPT ![p] = "create_user"]
    /\ UNCHANGED <<now, attempts, lock, users, sess, log, todos>>

\* create_user, lines 148-159: the INSERT and its commit; an IntegrityError
\* becomes 409 in signup, lines 84-89
\* a create_user that overwrites the row that holds the email
CreateUser_Replacing(p) ==
    LET user == NewUser(Len(users) + 1, req[p].email, req[p].password) IN
    /\ pc[p] = "create_user"
    /\ IF UniqueViolation(users, user.email)
       THEN /\ Finish(p, Response("signup", HTTP_409_CONFLICT, MSG_DUPLICATE,
                                  "duplicate"))
            /\ users' = [i \in 1..Len(users) |->
                            IF users[i].email = user.email
                            THEN [user EXCEPT !.id = i] ELSE users[i]]
       ELSE /\ users' = Append(users, user)
            /\ loc' = [loc EXCEPT ![p].user = user]
            /\ sess' = [sess EXCEPT ![p] = user]
            /\ pc' = [pc EXCEPT ![p] = "signup_refresh"]
            /\ UNCHANGED resp
    /\ UNCHANGED <<now, attempts, lock, req, log, todos>>

CreateUser(p) ==
    LET user == NewUser(Len(users) + 1, req[p].email, req[p].password) IN
    /\ pc[p] = "create_user"
    /\ IF UniqueViolation(users, user.email)
       THEN /\ Finish(p, Response("signup", HTTP_409_CONFLICT, MSG_DUPLICATE,
                                  "duplicate"))
            /\ UNCHANGED users
       ELSE /\ users' = Append(users, user)
            /\ loc' = [loc EXCEPT ![p].user = user]
            /\ sess' = [sess EXCEPT ![p] = user]
            /\ pc' = [pc EXCEPT ![p] = "signup_refresh"]
            /\ UNCHANGED resp
    /\ UNCHANGED <<now, attempts, lock, req, log, todos>>

\* create_user, lines 160-162, and signup, lines 74-82
SignupRespond(p) ==
    LET user == users[loc[p].user.id] IN
    /\ pc[p] = "signup_refresh"
    /\ Finish(p, [Response("signup", HTTP_201_CREATED, "", "created") EXCEPT
                     !.token = create_access_token(user.id, user.email, now),
                     !.user = user])
    /\ UNCHANGED <<now, attempts, lock, users, req, log, todos>>

\* the row of the account with this email, or NoRow
Account(email) == get_user_by_email(users, email)

(* ------------------------- token verification ------------------------ *)

\* the tokens a client can present: those the service has issued and
\* those presented before, as issued or with the signature altered
Held ==
    {resp[q].token : q \in Procs} \cup {req[q].token : q \in Procs}

Presented == {t \in Held \cup {Tamper(t) : t \in Held} : t # NoToken}

\* GET /api/auth/me, lines 200-232: the token is decoded and its claims
\* are checked; then the handler fetches the user
MeStart(p, token) ==
    LET decoded == jwt_decode(token, SECRET_KEY, now)
        r == [req EXCEPT ![p] = [Request(p, "me", token.email, <<>>)
                                    EXCEPT !.token = token]]
    IN
    /\ Idle(p)
    /\ req' = r
    /\ CASE decoded # "payload" ->
              Finish(p, Response("me", HTTP_401_UNAUTHORIZED,
                                 MSG_NOT_VALIDATED, "jwt_error"))
         [] decoded = "payload" /\ (token.sub = 0 \/ token.email = <<>>) ->
              Finish(p, Response("me", HTTP_401_UNAUTHORIZED,
                                 MSG_BAD_CLAIMS, "bad_claims"))
         [] decoded = "payload" /\ token.sub # 0 /\ token.email # <<>>
               /\ now - LOCAL_UTC_OFFSET > token.exp ->
              Finish(p, Response("me", HTTP_401_UNAUTHORIZED,
                                 MSG_EXPIRED, "expired"))
         [] OTHER ->
              /\ pc' = [pc EXCEPT ![p] = "me_fetch"]
              /\ loc' = [loc EXCEPT ![p] = [NoLoc EXCEPT !.caller = "me"]]
              /\ resp' = [resp EXCEPT ![p] = NoResp]
              /\ UNCHANGED sess
    /\ UNCHANGED <<now, attempts, lock, users, log, todos>>

\* GET /api/auth/me, lines 234-243
MeFetch(p) ==
    LET user == get_user_by_email(users, req[p].email) IN
    /\ pc[p] = "me_fetch"
    /\ IF user = NoRow
       THEN Finish(p, Response("me", HTTP_404_NOT_FOUND, MSG_NO_USER, "no_user"))
       ELSE Finish(p, [Response("me", HTTP_200_OK, "", "ok") EXCEPT !.user = user])
    /\ UNCHANGED <<now, attempts, lock, users, req, log, todos>>

\* get_current_user_id, the dependency of the todo endpoints: it returns
\* the subject of the token or raises 401
GetCurrentUserId(p, token) ==
    LET decoded == jwt_decode(token, SECRET_KEY, now) IN
    /\ Idle(p)
    /\ req' = [req EXCEPT ![p] = [Request(p, "get_current_user_id",
                                          token.email, <<>>)
                                     EXCEPT !.token = token]]
    /\ IF decoded # "payload" \/ token.sub = 0
       THEN Finish(p, Response("get_current_user_id", HTTP_401_UNAUTHORIZED,
                               MSG_NOT_VALIDATED, "jwt_error"))
       ELSE Finish(p, [Response("get_current_user_id", HTTP_200_OK, "", "ok")
                          EXCEPT !.value = token.sub])
    /\ UNCHANGED <<now, attempts, lock, users, log, todos>>

\* the clock advances by half a token lifetime, more or less
TokenTick(d) ==
    /\ now + d <= MaxTokenTime
    /\ now' = now + d
    /\ log' = [e \in Emails |-> PruneOld(log[e], now + d)]
    /\ UNCHANGED <<attempts, lock, users, pc, req, loc, sess, resp, todos>>

(* ----------------------- direct tracker callers ----------------------- *)

TrackerMethods == {"is_locked", "record_failed_attempt", "clear_attempts",
                   "get_remaining_attempts", "get_lockout_expiry"}

\* the first place of each method of RateLimiter
Entry(method) ==
    CASE method = "is_locked" -> "il_acquire"
      [] method = "record_failed_attempt" -> "rfa_acquire"
      [] method = "clear_attempts" -> "ca_acquire"
      [] method = "get_remaining_attempts" -> "gra_acquire"
      [] OTHER -> "gle_acquire"

RECURSIVE SumLen(_, _)
SumLen(f, S) ==
    IF S = {} THEN 0
    ELSE LET e == CHOOSE x \in S : TRUE IN Len(f[e]) + SumLen(f, S \ {e})

\* the timestamps the tracker holds, over all keys
Stored == SumLen(attempts, Emails)

\* a thread calls rate_limiter.<method>(email)
CallTracker(p, method, email) ==
    /\ Idle(p)
    /\ method = "record_failed_attempt" => Stored < MaxWindow
    /\ req' = [req EXCEPT ![p] = Request(p, method, email, <<>>)]
    /\ loc' = [loc EXCEPT ![p] = [NoLoc EXCEPT !.caller = "direct"]]
    /\ resp' = [resp EXCEPT ![p] = NoResp]
    /\ pc' = [pc EXCEPT ![p] = Entry(method)]
    /\ UNCHANGED <<now, attempts, lock, users, sess, log, todos>>

(* --------------------------- specifications --------------------------- *)

Advance == \E d \in TickSteps : Tick(d)

\* one step of a method of RateLimiter on behalf of p
TrackerStep(p) ==
    \/ IsLockedAcquire(p)
    \/ IsLockedPrune(p)
    \/ IsLockedReturn(p)
    \/ GetLockoutExpiryAcquire(p)
    \/ RecordFailedAttemptAcquire(p)
    \/ RecordFailedAttempt(p)
    \/ ClearAttemptsAcquire(p)
    \/ ClearAttempts(p)
    \/ GetRemainingAttemptsAcquire(p)
    \/ GetRemainingAttemptsPrune(p)
    \/ GetRemainingAttemptsReturn(p)

\* threads call the methods of the one RateLimiter concurrently, within
\* one instant of the clock
TrackerNext ==
    \E p \in Procs :
        \/ \E m \in TrackerMethods, e \in Emails : CallTracker(p, m, e)
        \/ TrackerStep(p)

TrackerSpec == Init /\ [][TrackerNext]_vars

\* one step of request p's handler
Step(p) ==
    \/ IsLockedAcquire(p)
    \/ IsLockedPrune(p)
    \/ IsLockedReturn(p)
    \/ GetLockoutExpiryAcquire(p)
    \/ IsAccountLocked(p)
    \/ VerifyUserCredentials(p)
    \/ CommitFailed(p)
    \/ CommitSuccess(p)
    \/ RefreshUser(p)
    \/ RecordFailedAttemptAcquire(p)
    \/ RecordFailedAttempt(p)
    \/ ClearAttemptsAcquire(p)
    \/ ClearAttempts(p)
    \/ CreateUser(p)
    \/ SignupRespond(p)

Start(p) ==
    \/ \E raw \in RawEmails, password \in SigninPasswords :
          SigninStart(p, raw, password)
    \/ \E raw \in RawEmails, password \in SignupPasswords :
          SignupStart(p, raw, password)

\* requests arrive and run concurrently, within one instant of the clock
Next == \E p \in Procs : Start(p) \/ Step(p)

Spec == Init /\ [][Next]_vars

\* the server runs every handler, and a handler that waits for the lock
\* gets it if it is free again and again: no request is starved
FairSpec == Spec /\ \A p \in Procs : SF_vars(Step(p))

\* the requests of one client arrive one after the other, while the clock
\* advances
SeqProcs == {1}

SeqNext == Advance \/ \E p \in SeqProcs : Start(p) \/ Step(p)

SeqSpec == Init /\ [][SeqNext]_vars

FairSeqSpec == SeqSpec /\ \A p \in SeqProcs : SF_vars(Step(p))

\* the server process stops and starts again: the module of the tracker is
\* loaded anew, so rate_limiter is a new RateLimiter with no attempts and a
\* new lock; the requests in flight are gone; the table users and the clock
\* are outside the process
Restart ==
    /\ attempts' = [e \in Emails |-> <<>>]
    /\ lock' = NoOwner
    /\ pc' = [p \in Procs |-> "idle"]
    /\ req' = [p \in Procs |-> NoReq]
    /\ loc' = [p \in Procs |-> NoLoc]
    /\ sess' = [p \in Procs |-> NoRow]
    /\ resp' = [p \in Procs |-> NoResp]
    /\ log' = [e \in Emails |-> <<>>]
    /\ UNCHANGED <<now, users, todos>>

RestartNext == SeqNext \/ Restart

\* the requests of one client, the clock, and restarts of the server
RestartSpec == Init /\ [][RestartNext]_vars

FairRestartSpec == RestartSpec /\ \A p \in SeqProcs : SF_vars(Step(p))

\* the client whose email has an account and the client whose email has none
WithAccount == 1
WithoutAccount == 2

\* the email nobody signs up with
UnknownEmail == <<"b">>

\* the password that is not the account's
WrongPassword == <<"W", "x", "y", "z", "7", "8", "9", "?">>

\* the same wrong-password Signin is sent at the same instant for the email
\* with an account and for the email without
PairSigninStart ==
    /\ \A p \in Procs : Idle(p)
    /\ Account(<<"a">>) # NoRow
    /\ \E raw \in RawEmails :
          req' = [req EXCEPT
                    ![WithAccount] = Request(WithAccount, "signin",
                                             email_to_lowercase(raw), WrongPassword),
                    ![WithoutAccount] = Request(WithoutAccount, "signin",
                                                email_to_lowercase(UnknownEmail),
                                                WrongPassword)]
    /\ loc' = [p \in Procs |-> [NoLoc EXCEPT !.caller = "signin"]]
    /\ resp' = [p \in Procs |-> NoResp]
    /\ pc' = [p \in Procs |-> "il_acquire"]
    /\ UNCHANGED <<now, attempts, lock, users, sess, log, todos>>

\* the account is registered once, before the attempts
PairSignup ==
    /\ users = <<>>
    /\ \E raw \in RawEmails, password \in SignupPasswords :
          SignupStart(WithAccount, raw, password)

\* the clock advances between the attempts, not during one
PairAdvance == (\A p \in Procs : Idle(p)) /\ Advance

\* the steps of a Signup and of a Signin that fails
PairStep(p) ==
    \/ IsLockedAcquire(p)
    \/ IsLockedPrune(p)
    \/ IsLockedReturn(p)
    \/ GetLockoutExpiryAcquire(p)
    \/ IsAccountLocked(p)
    \/ VerifyUserCredentials(p)
    \/ CommitFailed(p)
    \/ RecordFailedAttemptAcquire(p)
    \/ RecordFailedAttempt(p)
    \/ CreateUser(p)
    \/ SignupRespond(p)

PairNext ==
    \/ PairAdvance
    \/ PairSignup
    \/ PairSigninStart
    \/ \E p \in Procs : PairStep(p)

\* one schedule of wrong-password attempts, run for both emails
PairSpec == Init /\ [][PairNext]_vars

\* one thread calls the methods of the RateLimiter one after the other,
\* while the clock advances
TrackerSeqNext ==
    \/ Advance
    \/ \E p \in SeqProcs :
          \/ \E m \in TrackerMethods, e \in Emails : CallTracker(p, m, e)
          \/ TrackerStep(p)

TrackerSeqSpec == Init /\ [][TrackerSeqNext]_vars

\* a call that can take a step takes it
FairTrackerSeqSpec ==
    TrackerSeqSpec /\ \A p \in SeqProcs : SF_vars(TrackerStep(p))

\* the password the account is registered with
RightPassword == <<"A", "b", "c", "d", "1", "2", "3", "!">>

\* the steps of a Signup, of a Signin that succeeds and of /me
TokenStep(p) ==
    \/ CreateUser(p)
    \/ SignupRespond(p)
    \/ IsLockedAcquire(p)
    \/ IsLockedPrune(p)
    \/ IsLockedReturn(p)
    \/ IsAccountLocked(p)
    \/ VerifyUserCredentials(p)
    \/ CommitSuccess(p)
    \/ RefreshUser(p)
    \/ ClearAttemptsAcquire(p)
    \/ ClearAttempts(p)
    \/ MeFetch(p)

\* tokens are issued by Signup and by Signin with the right password for a
\* registered email, and presented to /me and to the todo endpoints
TokenStart(p) ==
    \/ \E raw \in RawEmails, password \in SignupPasswords :
          SignupStart(p, raw, password)
    \/ \E raw \in RawEmails :
          /\ Account(email_to_lowercase(raw)) # NoRow
          /\ SigninStart(p, raw, RightPassword)
    \/ \E token \in Presented : MeStart(p, token)
    \/ \E token \in Presented : GetCurrentUserId(p, token)

TokenNext ==
    \/ \E d \in TokenTickSteps : TokenTick(d)
    \/ \E p \in Procs : TokenStart(p) \/ TokenStep(p)

\* two clients get tokens and use them over a day and more
TokenSpec == Init /\ [][TokenNext]_vars

\* a token signed with the service secret whose payload lacks the claim
\* sub, or the claim email: payload.get returns None for it
DropSub(token) == [token EXCEPT !.sub = 0]
DropEmail(token) == [token EXCEPT !.email = <<>>]

\* the tokens a caller can put into the Authorization header: those of
\* Presented and the same tokens without one of the claims
Offered ==
    Presented \cup {DropSub(t) : t \in Presented}
              \cup {DropEmail(t) : t \in Presented}

\* the steps of a Signup and of /me
VerifyStep(p) ==
    \/ CreateUser(p)
    \/ SignupRespond(p)
    \/ MeFetch(p)

VerifyStart(p) ==
    \/ \E raw \in RawEmails, password \in SignupPasswords :
          SignupStart(p, raw, password)
    \/ \E token \in Offered : MeStart(p, token)
    \/ \E token \in Offered : GetCurrentUserId(p, token)

VerifyNext ==
    \/ \E d \in TokenTickSteps : TokenTick(d)
    \/ \E p \in Procs : VerifyStart(p) \/ VerifyStep(p)

\* any bearer token is presented to the two verification paths
VerifySpec == Init /\ [][VerifyNext]_vars

\* POST /api/auth/signin, as SigninStart; the email as typed is kept
CaseSigninStart(p, typed, password) ==
    /\ Idle(p)
    /\ req' = [req EXCEPT ![p] =
                  [Request(p, "signin", email_to_lowercase(typed), password)
                     EXCEPT !.raw = typed]]
    /\ loc' = [loc EXCEPT ![p] = [NoLoc EXCEPT !.caller = "signin"]]
    /\ resp' = [resp EXCEPT ![p] = NoResp]
    /\ pc' = [pc EXCEPT ![p] = "il_acquire"]
    /\ UNCHANGED <<now, attempts, lock, users, sess, log, todos>>

\* POST /api/auth/signup, as SignupStart; the email as typed is kept
CaseSignupStart(p, typed, password) ==
    /\ Idle(p)
    /\ req' = [req EXCEPT ![p] =
                  [Request(p, "signup", email_to_lowercase(typed), password)
                     EXCEPT !.raw = typed]]
    /\ loc' = [loc EXCEPT ![p] = [NoLoc EXCEPT !.caller = "signup"]]
    /\ resp' = [resp EXCEPT ![p] = NoResp]
    /\ pc' = [pc EXCEPT ![p] = "create_user"]
    /\ UNCHANGED <<now, attempts, lock, users, sess, log, todos>>

CaseStart(p) ==
    \/ \E typed \in RawEmails, password \in SigninPasswords :
          CaseSigninStart(p, typed, password)
    \/ \E typed \in RawEmails, password \in SignupPasswords :
          CaseSignupStart(p, typed, password)

CaseNext == \E p \in SeqProcs : CaseStart(p) \/ Step(p)

\* one client signs up and signs in with either spelling of its email
CaseSpec == Init /\ [][CaseNext]_vars

(* -------------------------------- todos ------------------------------- *)

\* the title a todo is created with
Titles == {"x"}

\* the operations on one todo, each with the title and the completion flag
\* of its body: TodoService.get_todo_by_id called with the caller's id,
\* PATCH /{todo_id}/complete, PUT /{todo_id}, DELETE /{todo_id}
TodoInputs ==
    { <<"get_todo_by_id", "", FALSE>>, <<"complete_todo", "", TRUE>>,
      <<"update_todo", "y", FALSE>>, <<"delete_todo", "", FALSE>> }

\* get_user_todos: select ... where user_id = user_id order by created_at
\* desc; the ids grow with created_at
RECURSIVE get_user_todos(_, _)
get_user_todos(rows, user_id) ==
    IF rows = <<>> THEN <<>>
    ELSE LET last == rows[Len(rows)]
             rest == get_user_todos(SubSeq(rows, 1, Len(rows) - 1), user_id)
         IN IF last.user_id = user_id THEN <<last>> \o rest ELSE rest

\* a select by id alone
get_todo_by_id_AnyOwner(rows, todo_id, user_id) ==
    IF todo_id \in 1..Len(rows) /\ rows[todo_id].id = todo_id
    THEN rows[todo_id] ELSE NoTodo

\* get_todo_by_id: select ... where id = todo_id and user_id = user_id;
\* scalar_one_or_none
get_todo_by_id(rows, todo_id, user_id) ==
    IF /\ todo_id \in 1..Len(rows)
       /\ rows[todo_id].id = todo_id
       /\ rows[todo_id].user_id = user_id
    THEN rows[todo_id] ELSE NoTodo

\* session.commit() of a loaded Todo: the UPDATE sets the columns whose
\* value on the object differs from the loaded one
TodoFlush(rows, loaded, obj) ==
    [rows EXCEPT ![obj.id] =
        [c \in TodoColumns |-> IF obj[c] # loaded[c] THEN obj[c] ELSE @[c]]]

\* get_current_user_id as the dependency of a todo endpoint: the subject
\* of the token, or 0 where it raises 401
Authenticated(token) ==
    IF jwt_decode(token, SECRET_KEY, now) # "payload" \/ token.sub = 0
    THEN 0 ELSE token.sub

TodoRequest(p, op, token, todo_id, title, completed) ==
    [Request(p, op, token.email, <<>>) EXCEPT
        !.token = token, !.todo_id = todo_id, !.title = title,
        !.completed = completed]

Unauthenticated(op) ==
    Response(op, HTTP_401_UNAUTHORIZED, MSG_NOT_VALIDATED, "jwt_error")

\* GET /api/todos/
GetTodos(p, token) ==
    LET user_id == Authenticated(token) IN
    /\ Idle(p)
    /\ req' = [req EXCEPT ![p] = TodoRequest(p, "get_todos", token, 0, "", FALSE)]
    /\ IF user_id = 0
       THEN Finish(p, Unauthenticated("get_todos"))
       ELSE Finish(p, [Response("get_todos", HTTP_200_OK, "", "ok") EXCEPT
                          !.todos = get_user_todos(todos, user_id)])
    /\ UNCHANGED <<now, attempts, lock, users, log, todos>>

\* POST /api/todos/ and create_todo: the INSERT, its commit and the refresh
CreateTodo(p, token, title) ==
    LET user_id == Authenticated(token)
        todo == [id |-> Len(todos) + 1, user_id |-> user_id, title |-> title,
                 completed |-> FALSE]
    IN
    /\ Idle(p)
    /\ user_id # 0 => Len(todos) < MaxTodos
    /\ req' = [req EXCEPT ![p] = TodoRequest(p, "create_todo", token, 0, title,
                                             FALSE)]
    /\ IF user_id = 0
       THEN /\ Finish(p, Unauthenticated("create_todo"))
            /\ UNCHANGED todos
       ELSE /\ todos' = Append(todos, todo)
            /\ Finish(p, [Response("create_todo", HTTP_201_CREATED, "", "created")
                             EXCEPT !.todo = todo])
    /\ UNCHANGED <<now, attempts, lock, users, log>>

\* the dependency of the endpoint, before its body
TodoStart(p, op, token, todo_id, title, completed) ==
    /\ Idle(p)
    /\ req' = [req EXCEPT ![p] = TodoRequest(p, op, token, todo_id, title,
                                             completed)]
    /\ IF Authenticated(token) = 0
       THEN Finish(p, Unauthenticated(op))
       ELSE /\ loc' = [loc EXCEPT ![p] = [NoLoc EXCEPT !.caller = op]]
            /\ resp' = [resp EXCEPT ![p] = NoResp]
            /\ pc' = [pc EXCEPT ![p] = "todo_get"]
            /\ UNCHANGED sess
    /\ UNCHANGED <<now, attempts, lock, users, log, todos>>

\* the select of get_todo_by_id in update_todo_completion,
\* update_todo_details and delete_todo; None becomes 404, whose body is
\* that of the handler for 404 (errors.py:49-58)
TodoGet(p) ==
    LET todo == get_todo_by_id(todos, req[p].todo_id, req[p].token.sub) IN
    /\ pc[p] = "todo_get"
    /\ CASE req[p].op = "get_todo_by_id" ->
              Finish(p, [Returned("get_todo_by_id", todo # NoTodo, NoTime)
                            EXCEPT !.todo = todo])
         [] req[p].op # "get_todo_by_id" /\ todo = NoTodo ->
              Finish(p, Response(req[p].op, HTTP_404_NOT_FOUND, MSG_NOT_FOUND,
                                 "not_found"))
         [] OTHER ->
              /\ loc' = [loc EXCEPT ![p].todo = todo]
              /\ pc' = [pc EXCEPT ![p] = "todo_commit"]
              /\ UNCHANGED <<sess, resp>>
    /\ UNCHANGED <<now, attempts, lock, users, req, log, todos>>

\* the assignment to the loaded Todo, the commit and the refresh; or the
\* delete and its commit.  An UPDATE that finds its row gone raises
\* StaleDataError (500, errors.py:60-84); a DELETE that finds it gone does
\* not
TodoCommit(p) ==
    LET loaded == loc[p].todo
        obj == IF req[p].op = "complete_todo"
               THEN [loaded EXCEPT !.completed = req[p].completed]
               ELSE [loaded EXCEPT !.title = req[p].title]
    IN
    /\ pc[p] = "todo_commit"
    /\ CASE req[p].op = "delete_todo" ->
              /\ todos' = [todos EXCEPT ![loaded.id] = NoTodo]
              /\ Finish(p, Response("delete_todo", HTTP_204_NO_CONTENT, "",
                                    "deleted"))
         [] req[p].op # "delete_todo" /\ todos[loaded.id] = NoTodo ->
              /\ Finish(p, Response(req[p].op, HTTP_500_INTERNAL_SERVER_ERROR,
                                    MSG_UNEXPECTED, "stale"))
              /\ UNCHANGED todos
         [] OTHER ->
              /\ todos' = TodoFlush(todos, loaded, obj)
              /\ Finish(p, [Response(req[p].op, HTTP_200_OK, "", "ok") EXCEPT
                               !.todo = TodoFlush(todos, loaded, obj)[loaded.id]])
    /\ UNCHANGED <<now, attempts, lock, users, req, log>>

\* the email client p has signed up with
TodoEmail(p) == IF p = 1 THEN <<"a">> ELSE <<"b">>

\* the tokens client p holds: the one its signup returned, which it
\* presents with every request
HeldBy(p) == {resp[p].token, req[p].token} \ {NoToken}

\* every client has signed up and holds the answer
TodoInit ==
    /\ now = 0
    /\ attempts = [e \in Emails |-> <<>>]
    /\ lock = NoOwner
    /\ users = [p \in Procs |->
                   NewUser(p, TodoEmail(p), CHOOSE w \in SignupPasswords : TRUE)]
    /\ pc = [p \in Procs |-> "done"]
    /\ req = [p \in Procs |->
                 [NoReq EXCEPT !.op = "signup", !.email = TodoEmail(p),
                               !.password = CHOOSE w \in SignupPasswords : TRUE]]
    /\ loc = [p \in Procs |-> NoLoc]
    /\ sess = [p \in Procs |-> NoRow]
    /\ resp = [p \in Procs |->
                  [Response("signup", HTTP_201_CREATED, "", "created") EXCEPT
                      !.token = create_access_token(p, TodoEmail(p), 0),
                      !.user = NewUser(p, TodoEmail(p),
                                       CHOOSE w \in SignupPasswords : TRUE)]]
    /\ log = [e \in Emails |-> <<>>]
    /\ todos = <<>>

TodoStep(p) ==
    \/ TodoGet(p)
    \/ TodoCommit(p)

TodoCall(p) ==
    \/ \E token \in HeldBy(p) : GetTodos(p, token)
    \/ \E token \in HeldBy(p), title \in Titles : CreateTodo(p, token, title)
    \/ \E i \in TodoInputs, token \in HeldBy(p), todo_id \in 1..MaxTodos :
          TodoStart(p, i[1], token, todo_id, i[2], i[3])

TodoNext == \E p \in Procs : TodoCall(p) \/ TodoStep(p)

\* two users who have signed up call the todo endpoints concurrently, each
\* with its token
TodoSpec == TodoInit /\ [][TodoNext]_vars

(* --------------------------- password policy -------------------------- *)

\* UserSignUp.password: Field(min_length=8, max_length=128)
MIN_PASSWORD_LENGTH == 8
MAX_PASSWORD_LENGTH == 128

\* the characters of the candidate passwords, by the classes of the
\* regular expressions of validate_password_strength
UpperChars == {"A", "B"}
LowerChars == {"a", "b", "c", "d"}
DigitChars == {"1", "2", "3", "4"}
\* [!@#$%^&*(),.?":{}|<>] (the double quote, which no candidate password
\* holds, is left out)
SpecialChars == {"!", "@", "#", "$", "%", "^", "&", "*", "(", ")", ",", ".",
                 "?", ":", "{", "}", "|", "<", ">"}

\* re.search(class, v)
Search(class, v) == \E i \in 1..Len(v) : v[i] \in class

MSG_TOO_SHORT == "String should have at least 8 characters"
MSG_TOO_LONG == "String should have at most 128 characters"
MSG_NO_UPPER == "Password must contain at least one uppercase letter"
MSG_NO_LOWER == "Password must contain at least one lowercase letter"
MSG_NO_DIGIT == "Password must contain at least one number"
MSG_NO_SPECIAL == "Password must contain at least one special character"

\* the validation of UserSignUp.password: the constraints of the Field, then
\* validate_password_strength; "" when the password passes
validate_password_strength(v) ==
    IF Len(v) < MIN_PASSWORD_LENGTH THEN MSG_TOO_SHORT
    ELSE IF Len(v) > MAX_PASSWORD_LENGTH THEN MSG_TOO_LONG
    ELSE IF ~Search(UpperChars, v) THEN MSG_NO_UPPER
    ELSE IF ~Search(LowerChars, v) THEN MSG_NO_LOWER
    ELSE IF ~Search(DigitChars, v) THEN MSG_NO_DIGIT
    ELSE IF ~Search(SpecialChars, v) THEN MSG_NO_SPECIAL
    ELSE ""

\* n times the character c
Repeat(c, n) == [i \in 1..n |-> c]

\* the passwords submitted to Signup, as sequences of characters: one that
\* passes, one for each class left out, one with a hyphen as its only
\* symbol, two of the greatest length that differ in their last character,
\* and one longer than that
PolicyPasswords ==
    { <<"A", "b", "c", "d", "1", "2", "3", "!">>,
      <<"A", "b", "c", "1", "2", "3", "!">>,
      <<"a", "b", "c", "d", "1", "2", "3", "!">>,
      <<"A", "B", "A", "B", "1", "2", "3", "!">>,
      <<"A", "b", "c", "d", "a", "b", "c", "!">>,
      <<"A", "b", "c", "d", "1", "2", "3", "4">>,
      <<"A", "b", "c", "d", "1", "2", "3", "-">>,
      <<"A", "b", "1", "!">> \o Repeat("a", MAX_PASSWORD_LENGTH - 4),
      <<"A", "b", "1", "!">> \o Repeat("a", MAX_PASSWORD_LENGTH - 5) \o <<"b">>,
      <<"A", "b", "1", "!">> \o Repeat("a", MAX_PASSWORD_LENGTH - 3) }

\* POST /api/auth/signup with any password: the request model is validated
\* first, and a RequestValidationError is answered 400 (errors.py:30-47);
\* detail holds the message of the first entry of validation_errors
PolicySignupStart(p, typed, password) ==
    LET error == validate_password_strength(password)
        r == Request(p, "signup", email_to_lowercase(typed), password)
    IN
    /\ Idle(p)
    /\ req' = [req EXCEPT ![p] = r]
    /\ IF error # ""
       THEN Finish(p, Response("signup", HTTP_400_BAD_REQUEST, error,
                               "validation"))
       ELSE /\ loc' = [loc EXCEPT ![p] = [NoLoc EXCEPT !.caller = "signup"]]
            /\ resp' = [resp EXCEPT ![p] = NoResp]
            /\ pc' = [pc EXCEPT ![p] = "create_user"]
            /\ UNCHANGED sess
    /\ UNCHANGED <<now, attempts, lock, users, log, todos>>

PolicyNext ==
    \E p \in Procs :
        \/ \E typed \in RawEmails, password \in PolicyPasswords :
              PolicySignupStart(p, typed, password)
        \/ CreateUser(p)
        \/ SignupRespond(p)

\* Signup calls with passwords of every kind
PolicySpec == Init /\ [][PolicyNext]_vars

\* one client signs up and signs in with passwords of every kind; UserSignIn
\* does not validate the password
HashNext ==
    \E p \in SeqProcs :
        \/ \E typed \in RawEmails, password \in PolicyPasswords :
              PolicySignupStart(p, typed, password)
        \/ \E raw \in RawEmails, password \in PolicyPasswords :
              SigninStart(p, raw, password)
        \/ Step(p)

HashSpec == Init /\ [][HashNext]_vars

(* ------------------------------- claims ------------------------------- *)

InSignin(p) == req[p].op = "signin" /\ ~Idle(p)

Answered(p, op) == pc[p] = "done" /\ resp[p].op = op

\* the unexpired failures in the tracker's window of a key
Window(email) == PruneOld(attempts[email], now)

\* C1: a Signin call that runs while five failed Signin calls of the last 15
\* minutes are on record for its email is never stuck: it can always take
\* its next step, up to its RateLimited answer (SeqSpec).
C1_LockedOutSigninProceeds ==
    \A p \in SeqProcs :
        InSignin(p) /\ Len(log[req[p].email]) >= MAX_ATTEMPTS => ENABLED Step(p)

WaitingForLock(p) ==
    pc[p] \in {"il_acquire", "gle_acquire", "rfa_acquire", "ca_acquire",
               "gra_acquire"}

\* C2: no caller of a tracker method waits for the lock forever: whenever a
\* caller waits for the lock, the lock is free or the thread holding it can
\* take a step of its method (TrackerSpec).
C2_NoDeadlock ==
    \A p \in Procs :
        WaitingForLock(p) =>
            LockFree \/ \E q \in Procs : q = lock /\ ENABLED TrackerStep(q)

\* C3: every Signin call ends, with a token (200), RateLimited (429) or
\* InvalidCredentials (401) (FairSpec).
C3_SigninTerminates ==
    \A p \in Procs :
        InSignin(p) ~>
            (Answered(p, "signin") /\
             resp[p].status \in {HTTP_200_OK, HTTP_401_UNAUTHORIZED,
                                 HTTP_429_TOO_MANY_REQUESTS})

\* C4: a Signin for an email without active record records a failed attempt
\* in the tracker, and once five of them are on record the next Signin for
\* that email, which the tracker finds locked, is answered RateLimited
\* (FairSeqSpec).
C4_UnknownEmailThrottled ==
    /\ [][\A p \in SeqProcs :
            (InSignin(p) /\ loc[p].cause = "no_user" /\ Answered(p, "signin")')
            => /\ resp'[p].status = HTTP_401_UNAUTHORIZED
               /\ attempts'[req[p].email] = Append(attempts[req[p].email], now)
         ]_vars
    /\ \A p \in SeqProcs :
         (InSignin(p) /\ pc[p] = "gle_acquire" /\ Account(req[p].email) = NoRow)
         ~> (Answered(p, "signin") /\ resp[p].status = HTTP_429_TOO_MANY_REQUESTS)

\* C5: when a Signin has succeeded, the persisted counter is 0, the lockout
\* expiry absent and the window of the email empty; and the failed Signin
\* that follows a successful one is failure number 1 in both layers
\* (SeqSpec).
C5_SuccessResetsBothLayers ==
    \A p \in SeqProcs :
        LET e == req[p].email IN
        /\ (Answered(p, "signin") /\ resp[p].status = HTTP_200_OK)
           => /\ Account(e).failed_login_attempts = 0
              /\ Account(e).locked_until = NoTime
              /\ attempts[e] = <<>>
        /\ (Answered(p, "signin") /\ resp[p].cause = "bad_password"
              /\ req[p].after_success >= 0)
           => /\ Account(e).failed_login_attempts = 1
              /\ Len(attempts[e]) = 1

\* a Signin succeeded after recorded failures, and a failed one followed
C5_Witness ==
    \E p \in SeqProcs :
        /\ Answered(p, "signin")
        /\ resp[p].cause = "bad_password"
        /\ req[p].after_success = 1

RowsWithEmail(email) == {i \in 1..Len(users) : users[i].email = email}

\* C6: of the Signup calls for one normalized email exactly one succeeds:
\* the table never holds two rows with one email, every answered Signup is
\* 201 or 409 and leaves exactly one row with its email, a 201 carries that
\* row, and no two callers hold a 201 for the same email (Spec).
C6_OneSignupWins ==
    /\ \A e \in Emails : Cardinality(RowsWithEmail(e)) <= 1
    /\ \A p \in Procs :
         Answered(p, "signup") =>
            /\ resp[p].status \in {HTTP_201_CREATED, HTTP_409_CONFLICT}
            /\ Cardinality(RowsWithEmail(req[p].email)) = 1
            /\ resp[p].status = HTTP_201_CREATED
               => resp[p].user.id \in RowsWithEmail(req[p].email)
    /\ \A p, q \in Procs :
         (p # q /\ Answered(p, "signup") /\ Answered(q, "signup")
            /\ req[p].email = req[q].email)
         => ~(resp[p].status = HTTP_201_CREATED /\ resp[q].status = HTTP_201_CREATED)

\* two Signup calls for one email overlapped: the loser has its 409 while
\* the winner has not answered yet
C6_Witness ==
    \E p, q \in Procs :
        /\ pc[p] = "signup_refresh"
        /\ Answered(q, "signup")
        /\ resp[q].status = HTTP_409_CONFLICT
        /\ req[p].email = req[q].email

\* C7: every commit of a failed verification raises the persisted counter
\* of the record by exactly one, whatever other Signin calls interleave
\* (Spec).
C7_FailedAttemptCounted ==
    [][\A p \in Procs :
          CommitFailed(p) =>
             users'[loc[p].user.id].failed_login_attempts
               = users[loc[p].user.id].failed_login_attempts + 1
      ]_vars

\* C8: no recorded failure is lost: the window of a key holds as many
\* unexpired timestamps as record_failed_attempt calls have completed for
\* the key since it was last cleared (TrackerSpec).
C8_NoLostIncrement ==
    \A e \in Emails : Len(Window(e)) = Len(log[e])

\* two record_failed_attempt calls for one key overlap, one of them between
\* its acquire and its append, and appends are on record
C8_Witness ==
    \E p, q \in Procs :
        /\ p # q
        /\ req[p].email = req[q].email
        /\ pc[p] = "rfa_append"
        /\ pc[q] = "rfa_acquire"
        /\ Len(log[req[p].email]) >= 2

\* C9: within one lockout window no more than max_attempts failed credential
\* evaluations are admitted and recorded for a key, under any interleaving
\* of Signin calls (Spec).
C9_AtMostMaxAttemptsAdmitted ==
    \A e \in Emails : Len(log[e]) <= MAX_ATTEMPTS

\* what the caller sees of a response
Visible(r) == [status |-> r.status, detail |-> r.detail, token |-> r.token,
               user |-> r.user]

\* C10: a Signin that failed for lack of an active account and a Signin
\* that failed on a wrong password got the same status and message (Spec).
C10_NoEnumerationSignal ==
    \A p, q \in Procs :
        (Answered(p, "signin") /\ Answered(q, "signin")
           /\ resp[p].cause = "no_user" /\ resp[q].cause = "bad_password")
        => /\ Visible(resp[p]) = Visible(resp[q])
           /\ resp[p].status = HTTP_401_UNAUTHORIZED

\* one caller holds the answer for a missing account, another the answer
\* for a wrong password
C10_Witness ==
    \E p, q \in Procs :
        /\ Answered(p, "signin") /\ resp[p].cause = "no_user"
        /\ Answered(q, "signin") /\ resp[q].cause = "bad_password"

\* C11: when the same wrong-password Signin has been answered for the email
\* with an account and for the email without, at the same instant of the same
\* schedule, the two outcomes are the same (PairSpec).
C11_SameThrottling ==
    (Answered(WithAccount, "signin") /\ Answered(WithoutAccount, "signin"))
    => resp[WithAccount].status = resp[WithoutAccount].status

\* a persisted lockout is set for the email and its expiry is in the future
LockoutPending(email) == Account(email) # NoRow /\ RowLocked(Account(email), now)

\* a persisted lockout was set for the email and its expiry has passed
LockoutExpired(email) ==
    /\ Account(email) # NoRow
    /\ Account(email).locked_until # NoTime
    /\ ~RowLocked(Account(email), now)

\* C12: a Signin that arrives while the lockout set at T is pending is
\* answered RateLimited, unless the lockout expires while the call runs; and
\* a Signin that reads the clock once T + 15 minutes is reached is rejected
\* by neither layer: the tracker finds fewer than five entries in the window
\* and the store check passes the call on to the credential evaluation
\* (FairSeqSpec).
C12_LockoutByTimeAlone ==
    /\ \A p \in SeqProcs :
         (InSignin(p) /\ loc[p].caller = "signin" /\ pc[p] = "il_acquire"
            /\ LockoutPending(req[p].email))
         ~> \/ Answered(p, "signin") /\ resp[p].status = HTTP_429_TOO_MANY_REQUESTS
            \/ ~LockoutPending(req[p].email)
    /\ [][\A p \in SeqProcs :
            (InSignin(p) /\ loc[p].caller = "signin"
               /\ LockoutExpired(req[p].email))
            => /\ IsLockedPrune(p) => Len(loc'[p].pruned) < MAX_ATTEMPTS
               /\ IsAccountLocked(p) => pc'[p] = "verify"
         ]_vars

\* the tracker has reported the email of p's Signin as locked (auth.py:131)
TrackerSaidLocked(p) ==
    /\ InSignin(p)
    /\ pc[p] = "gle_acquire" \/ loc[p].caller = "gle_signin"

\* C13: once the tracker has reported the email as locked, the Signin is
\* answered RateLimited, and no step it takes from the verdict on reads or
\* writes the table users: no row is loaded into its session and no row
\* changes (FairSeqSpec).
C13_LockedBeforeStore ==
    /\ \A p \in SeqProcs :
         TrackerSaidLocked(p)
         ~> /\ Answered(p, "signin")
            /\ resp[p].status = HTTP_429_TOO_MANY_REQUESTS
            /\ resp[p].cause = "tracker_locked"
    /\ [][\A p \in SeqProcs :
            (TrackerSaidLocked(p) /\ Step(p))
            => /\ users' = users
               /\ sess[p] = NoRow /\ sess'[p] = NoRow
         ]_vars

\* C14: a successful credential check stamps the record with the current
\* time; its commit leaves the persisted record with counter 0, no lockout
\* expiry and that time as last_login_at; and the step that answers the
\* Signin empties the window of the email and issues a token for that
\* record (Spec).
C14_SuccessRecorded ==
    /\ [][\A p \in Procs :
            (VerifyUserCredentials(p) /\ pc'[p] = "commit_success")
            => loc'[p].user.last_login_at = now
         ]_vars
    /\ [][\A p \in Procs :
            CommitSuccess(p) =>
               LET id == loc[p].user.id IN
               /\ users'[id].failed_login_attempts = 0
               /\ users'[id].locked_until = NoTime
               /\ users'[id].last_login_at = loc[p].user.last_login_at
         ]_vars
    /\ [][\A p \in Procs :
            (ClearAttempts(p) /\ loc[p].caller = "signin") =>
               /\ attempts'[req[p].email] = <<>>
               /\ resp'[p].status = HTTP_200_OK
               /\ resp'[p].token.sub \in RowsWithEmail(req[p].email)
               /\ resp'[p].token.email = req[p].email
         ]_vars

\* C15: a Signin whose password fails verification against an existing,
\* unlocked record is recorded by both layers and answered
\* InvalidCredentials: its commit raises the persisted counter by exactly
\* one, and its last step appends exactly one timestamp to the window of
\* the email and answers 401 (Spec).
C15_FailureRecordedByBothLayers ==
    /\ [][\A p \in Procs :
            (CommitFailed(p) /\ loc[p].cause = "bad_password"
               /\ ~RowLocked(sess[p], now))
            => LET id == sess[p].id IN
               users'[id].failed_login_attempts
                  = users[id].failed_login_attempts + 1
         ]_vars
    /\ [][\A p \in Procs :
            (RecordFailedAttempt(p) /\ loc[p].cause = "bad_password")
            => /\ attempts'[req[p].email] = Append(attempts[req[p].email], now)
               /\ resp'[p].status = HTTP_401_UNAUTHORIZED
               /\ resp'[p].detail = MSG_INVALID
         ]_vars

\* the places of a Signin between the store's lockout check and the answer
\* of a successful authentication
Evaluating(p) ==
    pc[p] \in {"verify", "commit_success", "refresh", "ca_acquire", "ca_assign"}

\* C16: a failed verification that counts five or more sets the lockout
\* expiry to now + 15 minutes on the record, its commit writes the counter
\* and the expiry in one update, no Signin is in credential evaluation while
\* the lockout is pending, and a Signin that arrives while it is pending is
\* answered RateLimited unless the lockout expires while the call runs
\* (FairSeqSpec).
C16_LockoutAtThreshold ==
    /\ [][\A p \in SeqProcs :
            (VerifyUserCredentials(p) /\ pc'[p] = "commit_failed"
               /\ loc'[p].user.failed_login_attempts >= DB_MAX_FAILED)
            => loc'[p].user.locked_until = now + DB_LOCK_MINUTES
         ]_vars
    /\ [][\A p \in SeqProcs :
            (CommitFailed(p)
               /\ users'[sess[p].id].failed_login_attempts >= DB_MAX_FAILED)
            => /\ users'[sess[p].id].failed_login_attempts
                    = loc[p].user.failed_login_attempts
               /\ users'[sess[p].id].locked_until = loc[p].user.locked_until
               /\ users[sess[p].id].locked_until # loc[p].user.locked_until
         ]_vars
    /\ [](\A p \in SeqProcs :
            (InSignin(p) /\ LockoutPending(req[p].email)) => ~Evaluating(p))
    /\ \A p \in SeqProcs :
         (InSignin(p) /\ loc[p].caller = "signin" /\ pc[p] = "il_acquire"
            /\ LockoutPending(req[p].email))
         ~> \/ /\ Answered(p, "signin")
               /\ resp[p].status = HTTP_429_TOO_MANY_REQUESTS
               /\ resp[p].detail = MSG_LOCKED
            \/ ~LockoutPending(req[p].email)

\* the positions of a list whose timestamp is younger than the window at t
Young(list, t) == {i \in 1..Len(list) : t - list[i] < LOCKOUT_MINUTES}

\* C17: is_locked keeps exactly the timestamps younger than 15 minutes, in
\* their order, stores that list as the window of the key, and returns true
\* iff the stored window has at least five entries (TrackerSeqSpec).
C17_IsLockedVerdict ==
    /\ [][\A p \in SeqProcs :
            IsLockedPrune(p) =>
               LET old == attempts[req[p].email]
                   new == loc'[p].pruned
               IN
               /\ Len(new) = Cardinality(Young(old, now))
               /\ \A i \in 1..Len(new) : now - new[i] < LOCKOUT_MINUTES
               /\ \A i \in 1..Len(new) : \E j \in Young(old, now) : new[i] = old[j]
               /\ \A i, j \in 1..Len(new) : i <= j => new[i] <= new[j]
         ]_vars
    /\ [][\A p \in SeqProcs :
            (IsLockedReturn(p) /\ loc[p].caller = "direct") =>
               /\ attempts'[req[p].email] = loc[p].pruned
               /\ resp'[p].flag = (Len(attempts'[req[p].email]) >= MAX_ATTEMPTS)
               /\ ~resp'[p].flag = (Len(attempts'[req[p].email]) < MAX_ATTEMPTS)
         ]_vars

\* is_locked has dropped an expired timestamp and is about to report the
\* key locked on the five that remain
C17_Witness ==
    \E p \in SeqProcs :
        /\ req[p].op = "is_locked"
        /\ pc[p] = "il_return"
        /\ Len(loc[p].pruned) = MAX_ATTEMPTS
        /\ Len(attempts[req[p].email]) > Len(loc[p].pruned)

\* C18: a call of get_lockout_expiry returns, and what it returns is the
\* oldest timestamp of the key's pruned window plus 15 minutes when the key
\* is locked and None when it is not (FairTrackerSeqSpec).
C18_LockoutExpiryValue ==
    /\ \A p \in SeqProcs :
         (req[p].op = "get_lockout_expiry" /\ pc[p] = "gle_acquire")
         ~> Answered(p, "get_lockout_expiry")
    /\ [](\A p \in SeqProcs :
            Answered(p, "get_lockout_expiry") =>
               LET window == attempts[req[p].email] IN
               resp[p].value = IF Len(window) >= MAX_ATTEMPTS
                               THEN Min(window) + LOCKOUT_MINUTES
                               ELSE NoTime)

\* C19: get_remaining_attempts keeps the timestamps younger than 15
\* minutes, stores them as the window of the key and returns 5 minus their
\* number, or 0 when they are five or more: the result lies in 0..5 and is 0
\* once more than five failures are in the window (TrackerSeqSpec).
C19_RemainingAttempts ==
    /\ [][\A p \in SeqProcs :
            GetRemainingAttemptsPrune(p) =>
               /\ Len(loc'[p].pruned)
                    = Cardinality(Young(attempts[req[p].email], now))
               /\ \A i \in 1..Len(loc'[p].pruned) :
                     now - loc'[p].pruned[i] < LOCKOUT_MINUTES
         ]_vars
    /\ [][\A p \in SeqProcs :
            GetRemainingAttemptsReturn(p) =>
               LET n == Len(loc[p].pruned)
                   result == resp'[p].value
               IN
               /\ attempts'[req[p].email] = loc[p].pruned
               /\ result \in 0..MAX_ATTEMPTS
               /\ n > MAX_ATTEMPTS => result = 0
               /\ n <= MAX_ATTEMPTS => result = MAX_ATTEMPTS - n
         ]_vars

\* get_remaining_attempts has answered 0 for a window of more than five
\* failures
C19_Witness ==
    \E p \in SeqProcs :
        /\ Answered(p, "get_remaining_attempts")
        /\ resp[p].value = 0
        /\ Len(attempts[req[p].email]) > MAX_ATTEMPTS

\* the token verifies against the service secret and is not past its expiry
Valid(token) == token.key = SECRET_KEY /\ now <= token.exp

\* C20: a token issued with a Signup or Signin answer carries the id and
\* email of the record, iat = now and exp = now + 24 h; a presented token
\* that verifies against the secret and is not past its expiry is accepted
\* by /me and by get_current_user_id, so an issued token is accepted at
\* once; and a token past its expiry or with an altered signature is
\* answered 401 by both (TokenSpec).
C20_TokenLifetime ==
    /\ [][\A p \in Procs :
            (SignupRespond(p) \/ (ClearAttempts(p) /\ loc[p].caller = "signin"))
            => /\ resp'[p].token.sub = resp'[p].user.id
               /\ resp'[p].token.email = resp'[p].user.email
               /\ resp'[p].token.sub \in RowsWithEmail(resp'[p].token.email)
               /\ resp'[p].token.iat = now
               /\ resp'[p].token.exp = now + 24 * 60
               /\ resp'[p].token.key = SECRET_KEY
               /\ now <= resp'[p].token.exp
               /\ resp'[p].token \in Presented'
         ]_vars
    /\ [][\A p \in Procs : \A token \in Presented :
            MeStart(p, token)
            => IF Valid(token)
               THEN pc'[p] = "me_fetch"
               ELSE /\ Answered(p, "me")'
                    /\ resp'[p].status = HTTP_401_UNAUTHORIZED
         ]_vars
    /\ [][\A p \in Procs : \A token \in Presented :
            GetCurrentUserId(p, token)
            => /\ Answered(p, "get_current_user_id")'
               /\ IF Valid(token)
                  THEN /\ resp'[p].status = HTTP_200_OK
                       /\ resp'[p].value = token.sub
                  ELSE resp'[p].status = HTTP_401_UNAUTHORIZED
         ]_vars

\* one token was accepted by /me and, presented again after its expiry,
\* rejected
C20_Witness ==
    \E p, q \in Procs :
        /\ Answered(p, "me") /\ resp[p].status = HTTP_200_OK
        /\ Answered(q, "me") /\ resp[q].status = HTTP_401_UNAUTHORIZED
        /\ req[p].token = req[q].token
        /\ req[q].token.key = SECRET_KEY

\* a required claim is absent from the token
ClaimAbsent(token) == token.sub = 0 \/ token.email = <<>>

\* C21: a token without the claim sub or without the claim email is
\* answered 401 by /me and by get_current_user_id, the dependency of the
\* todo endpoints (VerifySpec).
C21_MissingClaimRejected ==
    [][\A p \in Procs : \A token \in Offered :
          ClaimAbsent(token) =>
             /\ MeStart(p, token)
                => /\ Answered(p, "me")'
                   /\ resp'[p].status = HTTP_401_UNAUTHORIZED
             /\ GetCurrentUserId(p, token)
                => /\ Answered(p, "get_current_user_id")'
                   /\ resp'[p].status = HTTP_401_UNAUTHORIZED
      ]_vars

\* the token p presented was rejected by a verification path
TokenRejected(p) ==
    /\ pc[p] = "done"
    /\ resp[p].op \in {"me", "get_current_user_id"}
    /\ resp[p].cause \in {"jwt_error", "bad_claims", "expired"}

\* C22: any two rejected tokens, whether expired, badly signed or without a
\* required claim, were answered with the same status and the same message
\* (VerifySpec).
C22_UniformRejection ==
    \A p, q \in Procs :
        (TokenRejected(p) /\ TokenRejected(q))
        => /\ resp[p].status = resp[q].status
           /\ resp[p].detail = resp[q].detail

\* the lowercased, trimmed form of an email
Canon(email) == Strip(Lower(email))

\* the rows whose email is a case variant of this one
RowsMatching(email) ==
    {i \in 1..Len(users) : Canon(users[i].email) = Canon(email)}

\* C23: every stored email is lowercased and trimmed; a Signup or Signin
\* runs under the lowercased, trimmed form of the email as typed, which is
\* also the only key under which the tracker holds failures; the case
\* variants of an email have at most one record; a Signin with the right
\* password is refused as InvalidCredentials only if no record matches the
\* typed email in any case; and a Signin that succeeds returns the one
\* record that matches (CaseSpec).
C23_CaseInsensitiveEmail ==
    /\ \A i \in 1..Len(users) : users[i].email = Canon(users[i].email)
    /\ \A p \in SeqProcs :
         req[p].op \in {"signin", "signup"} => req[p].email = Canon(req[p].raw)
    /\ \A e \in Emails : attempts[e] # <<>> => e = Canon(e)
    /\ \A r \in RawEmails : Cardinality(RowsMatching(r)) <= 1
    /\ \A p \in SeqProcs :
         (Answered(p, "signin") /\ req[p].password = RightPassword
            /\ resp[p].status = HTTP_401_UNAUTHORIZED)
         => RowsMatching(req[p].raw) = {}
    /\ \A p \in SeqProcs :
         (Answered(p, "signin") /\ resp[p].status = HTTP_200_OK)
         => RowsMatching(req[p].raw) = {resp[p].user.id}

\* a Signin typed in capitals and with a trailing space has succeeded on
\* the record stored in lower case
C23_Witness ==
    \E p \in SeqProcs :
        /\ Answered(p, "signin")
        /\ resp[p].status = HTTP_200_OK
        /\ req[p].raw # resp[p].user.email
        /\ req[p].raw = <<"A", " ">>

\* C24: Signup accepts a password iff it has at least 8 characters and one
\* uppercase letter, one lowercase letter, one digit and one punctuation or
\* symbol character (those of ASCII; the quotes and the backslash, which no
\* candidate password holds, are left out): a Signup call is answered with a
\* validation error exactly when its password violates the policy, and every
\* row of the table users holds the hash of a password that meets it
\* (PolicySpec).
C24_PasswordPolicy ==
    LET Symbol ==
            {"!", "#", "$", "%", "&", "(", ")", "*", "+", ",", "-", ".",
             "/", ":", ";", "<", "=", ">", "?", "@", "[", "]", "^", "_",
             "{", "|", "}", "~"}
        MeetsPolicy(v) ==
            /\ Len(v) >= 8
            /\ \E i \in 1..Len(v) : v[i] \in {"A", "B"}
            /\ \E i \in 1..Len(v) : v[i] \in {"a", "b", "c", "d"}
            /\ \E i \in 1..Len(v) : v[i] \in {"1", "2", "3", "4"}
            /\ \E i \in 1..Len(v) : v[i] \in Symbol
    IN
    /\ \A p \in Procs :
          (req[p].op = "signup" /\ pc[p] # "idle") =>
             (MeetsPolicy(req[p].password)
                <=> ~(/\ Answered(p, "signup")
                      /\ resp[p].status = HTTP_400_BAD_REQUEST))
    /\ \A id \in 1..Len(users) :
          \E v \in PolicyPasswords :
             /\ MeetsPolicy(v)
             /\ users[id].password_hash = hash_password(v)

\* C25: for every valid password p whose hash is stored, verify(p, hash(p))
\* is true, verify(q, hash(p)) is false for every other plaintext q, and
\* the stored hash is not the plaintext (HashSpec).
C25_HasherRoundTrip ==
    \A id \in 1..Len(users) : \A p \in PolicyPasswords :
       (/\ validate_password_strength(p) = ""
        /\ users[id].password_hash = hash_password(p))
          => /\ verify_password(p, users[id].password_hash)
             /\ \A q \in PolicyPasswords :
                   q # p => ~verify_password(q, users[id].password_hash)
             /\ users[id].password_hash # p

\* C26: a successful Signup creates exactly one row, with counter 0, active
\* and no lockout, and its answer carries a token issued for that row and
\* the row's identity; a Signup that fails creates none (Spec).
C26_SignupCreatesOneRecord ==
    [][\A p \in Procs :
          /\ CreateUser(p) =>
                IF pc'[p] = "signup_refresh"
                THEN /\ Len(users') = Len(users) + 1
                     /\ SubSeq(users', 1, Len(users)) = users
                     /\ users'[Len(users')].email = req[p].email
                     /\ users'[Len(users')].is_active
                     /\ users'[Len(users')].failed_login_attempts = 0
                     /\ users'[Len(users')].locked_until = NoTime
                     /\ users'[Len(users')].password_hash
                           = hash_password(req[p].password)
                     /\ loc'[p].user = users'[Len(users')]
                ELSE users' = users
          /\ SignupRespond(p) =>
                /\ users' = users
                /\ resp'[p].status = HTTP_201_CREATED
                /\ resp'[p].user.id = loc[p].user.id
                /\ resp'[p].user.email = req[p].email
                /\ resp'[p].token
                      = create_access_token(loc[p].user.id, req[p].email, now)
                /\ RowsWithEmail(req[p].email) = {loc[p].user.id}
      ]_vars

\* a Signup was answered 201 with the row it created
C26_Witness ==
    \E p \in Procs :
       /\ Answered(p, "signup")
       /\ resp[p].status = HTTP_201_CREATED
       /\ resp[p].token.sub \in 1..Len(users)
       /\ users[resp[p].token.sub].email = req[p].email

\* the table holds an active row for the email whose locked_until is in the
\* future
PersistedLockout(e) ==
    \E i \in 1..Len(users) :
       /\ users[i].email = e
       /\ users[i].is_active
       /\ users[i].locked_until > now

\* C27: the persisted lockout survives a restart.  While a row's
\* locked_until is in the future, is_account_locked answers the Signin for
\* its email RateLimited and leaves the table as it is, and no Signin for
\* that email is at the verification of the password; and a Signin that
\* arrives when the tracker is empty for an email whose row is locked is answered
\* RateLimited, unless the lockout expires or the server stops first
\* (FairRestartSpec).
C27_LockoutSurvivesRestart ==
    /\ [][\A p \in SeqProcs :
             (IsAccountLocked(p) /\ PersistedLockout(req[p].email)) =>
                /\ Answered(p, "signin")'
                /\ resp'[p].status = HTTP_429_TOO_MANY_REQUESTS
                /\ resp'[p].detail = MSG_LOCKED
                /\ users' = users
         ]_vars
    /\ [](\A p \in SeqProcs :
             (InSignin(p) /\ PersistedLockout(req[p].email)) => pc[p] # "verify")
    /\ \A p \in SeqProcs : \A e \in Emails :
          (/\ InSignin(p)
           /\ pc[p] = "il_acquire"
           /\ req[p].email = e
           /\ attempts[e] = <<>>
           /\ PersistedLockout(e))
             ~> \/ /\ Answered(p, "signin")
                   /\ req[p].email = e
                   /\ resp[p].status = HTTP_429_TOO_MANY_REQUESTS
                \/ ~PersistedLockout(e)
                \/ pc[p] = "idle"

\* after a restart emptied the tracker, a Signin for an email whose row is
\* still locked was answered RateLimited by the check of the row
C27_Witness ==
    \E p \in SeqProcs :
       /\ Answered(p, "signin")
       /\ resp[p].status = HTTP_429_TOO_MANY_REQUESTS
       /\ resp[p].cause = "db_locked"
       /\ attempts[req[p].email] = <<>>
       /\ Account(req[p].email) # NoRow
       /\ Account(req[p].email).locked_until > now

\* the request awaits a statement or a commit of its database session
AwaitingStore(p) ==
    pc[p] \in {"db_locked", "verify", "commit_failed", "commit_success",
               "refresh", "create_user", "signup_refresh", "me_fetch"}

\* the request is inside a method of the tracker, from the call to the
\* return
InTrackerMethod(p) ==
    pc[p] \in {"il_acquire", "il_prune", "il_return", "gle_acquire",
               "rfa_acquire", "rfa_append", "ca_acquire", "ca_assign",
               "gra_acquire", "gra_prune", "gra_return"}

\* C28: the tracker's lock is never held across a blocking or suspending
\* call: no request holds it while it awaits the database or while it is
\* blocked in a call that waits, and the lock is free whenever no method of
\* the tracker is in progress (Spec).
C28_LockNotHeldAcrossBlockingCall ==
    /\ \A p \in Procs :
          lock = p => /\ ~AwaitingStore(p)
                      /\ ~WaitingForLock(p)
    /\ (\A p \in Procs : ~InTrackerMethod(p)) => lock = NoOwner

\* C29: the RateLimited outcome is the same whether the lockout comes from
\* the tracker or from the row: every answer of either origin has status 429
\* and the one fixed message, which holds no time; a Signin the tracker found
\* locked gets that answer, and so does a Signin that reaches the check of a
\* locked row, unless the lockout expires first (FairSeqSpec).
C29_SameRateLimitedOutcome ==
    /\ [](\A p \in SeqProcs :
             (/\ Answered(p, "signin")
              /\ resp[p].cause \in {"tracker_locked", "db_locked"})
                => /\ resp[p].status = HTTP_429_TOO_MANY_REQUESTS
                   /\ resp[p].detail = MSG_LOCKED)
    /\ \A p \in SeqProcs :
          (InSignin(p) /\ pc[p] = "gle_acquire")
             ~> /\ Answered(p, "signin")
                /\ resp[p].status = HTTP_429_TOO_MANY_REQUESTS
                /\ resp[p].detail = MSG_LOCKED
    /\ \A p \in SeqProcs :
          (InSignin(p) /\ pc[p] = "db_locked" /\ PersistedLockout(req[p].email))
             ~> \/ /\ Answered(p, "signin")
                   /\ resp[p].status = HTTP_429_TOO_MANY_REQUESTS
                   /\ resp[p].detail = MSG_LOCKED
                \/ ~PersistedLockout(req[p].email)

\* the request of p names a todo that exists and belongs to another user
ForeignTodo(p) ==
    /\ req[p].todo_id \in 1..Len(todos)
    /\ todos[req[p].todo_id] # NoTodo
    /\ todos[req[p].todo_id].user_id # req[p].token.sub

C31_LockoutImpliesCounter ==
    \A i \in 1..Len(users) :
       users[i].locked_until # NoTime
          => users[i].failed_login_attempts >= DB_MAX_FAILED

\* C32: a Signin that carries the right password of an account that exists
\* and is active when its credentials are checked is answered with a token
\* or RateLimited, never InvalidCredentials, whatever other Signin calls for
\* the email do meanwhile (Spec).
C32_RightPasswordNeverInvalid ==
    \A p \in Procs :
       (/\ Answered(p, "signin")
        /\ resp[p].cause # "no_user"
        /\ Account(req[p].email) # NoRow
        /\ verify_password(req[p].password, Account(req[p].email).password_hash))
          => resp[p].status \in {HTTP_200_OK, HTTP_429_TOO_MANY_REQUESTS}

\* the places of signin from which it raises 429: the call of is_locked,
\* the call of get_lockout_expiry and the call of is_account_locked
BeforeVerification(p) ==
    /\ InSignin(p)
    /\ pc[p] \in {"il_acquire", "il_prune", "il_return", "gle_acquire",
                  "db_locked"}

\* C33: attempts made while locked do not extend the lockout.  A Signin is
\* answered RateLimited only from the checks that precede the verification,
\* and no step of those checks writes the table users or adds a timestamp
\* to the window of any key (Spec).
C33_LockedAttemptLeavesState ==
    [][\A p \in Procs :
          /\ (/\ ~Answered(p, "signin")
              /\ Answered(p, "signin")'
              /\ resp'[p].status = HTTP_429_TOO_MANY_REQUESTS)
                => BeforeVerification(p)
          /\ (BeforeVerification(p) /\ pc'[p] # pc[p]) =>
                /\ users' = users
                /\ \A e \in Emails :
                      /\ Len(attempts'[e]) <= Len(attempts[e])
                      /\ \A i \in 1..Len(attempts'[e]) :
                            \E j \in 1..Len(attempts[e]) :
                               attempts'[e][i] = attempts[e][j]
      ]_vars

\* a Signin was answered RateLimited while the row is locked and the
\* window of its email holds failures
C33_Witness ==
    \E p \in Procs :
       /\ Answered(p, "signin")
       /\ resp[p].status = HTTP_429_TOO_MANY_REQUESTS
       /\ PersistedLockout(req[p].email)
       /\ attempts[req[p].email] # <<>>

\* the calls that meet at an expired lockout: Signin with a password that
\* fails and the Signup that creates the account, from two clients whose
\* calls overlap
ExpiryStart(p) ==
    \/ SigninStart(p, <<"a">>, WrongPassword)
    \/ \E password \in SignupPasswords : SignupStart(p, <<"a">>, password)

ExpiryStep(p) ==
    \/ IsLockedAcquire(p)
    \/ IsLockedPrune(p)
    \/ IsLockedReturn(p)
    \/ GetLockoutExpiryAcquire(p)
    \/ IsAccountLocked(p)
    \/ VerifyUserCredentials(p)
    \/ CommitFailed(p)
    \/ RecordFailedAttemptAcquire(p)
    \/ RecordFailedAttempt(p)
    \/ CreateUser(p)
    \/ SignupRespond(p)

\* the clock advances by the length of a persisted lockout
ExpiryNext ==
    Tick(DB_LOCK_MINUTES) \/ \E p \in Procs : ExpiryStart(p) \/ ExpiryStep(p)

ExpirySpec == Init /\ [][ExpiryNext]_vars

\* no successful Signin was committed on the row since its lockout was set:
\* a success stamps last_login_at with its instant (auth_service.py:209) and
\* the lockout was set DB_LOCK_MINUTES before locked_until (line 201)
NoSuccessSince(user) ==
    \/ user.last_login_at = NoTime
    \/ user.last_login_at < user.locked_until - DB_LOCK_MINUTES

\* C34: the expiry of a persisted lockout does not reset the counter.  When
\* a verification fails on a row whose lockout has expired and on which no
\* Signin has succeeded since the lockout was set, the row's counter is at
\* least 5 and the failure sets locked_until to the instant of the
\* verification plus 15 minutes, which its commit then writes to the row
\* (ExpirySpec).
C34_ExpiryKeepsCounter ==
    [][\A p \in Procs :
          LET user == get_user_by_email(users, req[p].email) IN
          /\ (/\ pc[p] = "verify"
              /\ pc'[p] = "commit_failed"
              /\ user.locked_until # NoTime
              /\ NoSuccessSince(user))
                => /\ user.failed_login_attempts >= DB_MAX_FAILED
                   /\ loc'[p].user.locked_until = now + DB_LOCK_MINUTES
          /\ (/\ pc[p] = "commit_failed"
              /\ pc'[p] # pc[p]
              /\ sess[p].locked_until # NoTime
              /\ loc[p].user.failed_login_attempts > DB_MAX_FAILED)
                => users'[loc[p].user.id].locked_until
                      = loc[p].user.locked_until
      ]_vars

\* The column is_active (models/user.py:36) is written by no endpoint: a row
\* is deactivated by an UPDATE issued outside the API.
Deactivate(id) ==
    /\ id \in 1..Len(users)
    /\ users[id].is_active
    /\ users' = [users EXCEPT ![id].is_active = FALSE]
    /\ UNCHANGED <<now, attempts, lock, pc, req, loc, sess, resp, log, todos>>

\* Signup and Signin for one email, by two clients whose calls overlap
ActiveStart(p) ==
    \/ \E password \in SigninPasswords : SigninStart(p, <<"a">>, password)
    \/ \E password \in SignupPasswords : SignupStart(p, <<"a">>, password)

ActiveNext ==
    \/ \E id \in {1} : Deactivate(id)
    \/ \E p \in Procs : ActiveStart(p) \/ Step(p)

ActiveSpec == Init /\ [][ActiveNext]_vars

\* the row that holds the email, active or not: the column email is unique
Record(email) ==
    IF UniqueViolation(users, email)
    THEN users[CHOOSE i \in 1..Len(users) : users[i].email = email]
    ELSE NoRow

\* the credential check of p's Signin has found no active row, or a row
\* that is locked
Turned(p) == InSignin(p) /\ loc[p].cause \in {"no_user", "row_locked"}

\* C35: when the credential check of a Signin finds the record of its email
\* inactive, or its locked_until in the future, the check turns the call
\* down whatever the password; from then on the call writes nothing to the
\* table users, and it is answered 401 without a token (ActiveSpec).
C35_NoTokenForInactiveOrLocked ==
    [][\A p \in Procs :
          /\ (/\ InSignin(p)
              /\ pc[p] = "verify"
              /\ pc'[p] # pc[p]
              /\ Record(req[p].email) # NoRow
              /\ \/ ~Record(req[p].email).is_active
                 \/ RowLocked(Record(req[p].email), now))
                => Turned(p)' /\ users' = users
          /\ (Turned(p) /\ pc'[p] # pc[p])
                => /\ users' = users
                   /\ Answered(p, "signin")'
                         => /\ resp'[p].status = HTTP_401_UNAUTHORIZED
                            /\ resp'[p].token = NoToken
      ]_vars

\* two Signin calls with the right password were answered: one whose check
\* found the row locked, and one whose check found the row inactive
C35_Witness ==
    \E p \in Procs, q \in Procs :
       /\ Answered(p, "signin") /\ resp[p].cause = "row_locked"
       /\ Answered(q, "signin") /\ resp[q].cause = "no_user"
       /\ Record(req[q].email) # NoRow
       /\ ~Record(req[q].email).is_active
       /\ \A r \in {p, q} :
             verify_password(req[r].password, Record(req[r].email).password_hash)

\* C36: Signup never alters existing authentication state.  No step of a
\* Signup changes a row that is already in the table users or the window of
\* any key, and the step that answers DuplicateEmail leaves the table as it
\* is (Spec).
C36_SignupLeavesAuthState ==
    [][\A p \in Procs :
          (req'[p].op = "signup" /\ pc'[p] # pc[p])
             => /\ attempts' = attempts
                /\ \A i \in 1..Len(users) :
                      i <= Len(users') /\ users'[i] = users[i]
                /\ (Answered(p, "signup")'
                      /\ resp'[p].status = HTTP_409_CONFLICT)
                      => users' = users
      ]_vars

\* a Signup was answered DuplicateEmail for an email whose record counts
\* failures and whose window holds entries
C36_Witness ==
    \E p \in Procs :
       /\ Answered(p, "signup")
       /\ resp[p].status = HTTP_409_CONFLICT
       /\ Record(req[p].email).failed_login_attempts > 0
       /\ attempts[req[p].email] # <<>>

\* C37: tracker keys are isolated.  A step of a method called on key k
\* leaves the window of every other key as it is, and a window that holds
\* entries becomes empty only by the assignment of clear_attempts on its
\* key or when every entry it holds has aged out of the window
\* (TrackerSeqSpec).
C37_TrackerKeysIsolated ==
    [][/\ \A p \in Procs :
             (InTrackerMethod(p) /\ pc'[p] # pc[p])
                => \A e \in Emails \ {req[p].email} :
                      attempts'[e] = attempts[e]
       /\ \A e \in Emails :
             (attempts[e] # <<>> /\ attempts'[e] = <<>>)
                => \/ \E p \in Procs : /\ pc[p] = "ca_assign"
                                       /\ pc'[p] # pc[p]
                                       /\ req[p].email = e
                   \/ PruneOld(attempts[e], now) = <<>>
      ]_vars

\* is_locked or get_remaining_attempts has returned for a key whose window
\* is empty, at an instant at which the window of another key still holds
\* an entry that has aged out
C37_Witness ==
    \E p \in Procs, e \in Emails :
       /\ pc[p] = "done"
       /\ resp[p].op \in {"is_locked", "get_remaining_attempts"}
       /\ attempts[req[p].email] = <<>>
       /\ e # req[p].email
       /\ attempts[e] # <<>>
       /\ PruneOld(attempts[e], now) # attempts[e]

\* instants at which failures were recorded and the verdicts are asked: the
\* ages they make include 15 minutes exactly, and more, and less
VerdictTimes == {0, 7, 8, 15, MaxTime}

\* what record_failed_attempt can have left under a key: up to MaxWindow
\* readings of the clock, in the order they were appended
VerdictWindows ==
    {w \in UNION {[1..n -> VerdictTimes] : n \in 0..MaxWindow} :
        \A i \in 1..Len(w) : i < Len(w) => w[i] <= w[i + 1]}

\* the tracker holds a window for the key "a", and the clock has not gone
\* back since its last entry
VerdictInit ==
    /\ now \in VerdictTimes
    /\ \E w \in VerdictWindows :
          /\ \A i \in 1..Len(w) : w[i] <= now
          /\ attempts = [e \in Emails |-> IF e = <<"a">> THEN w ELSE <<>>]
    /\ lock = NoOwner
    /\ users = <<>>
    /\ pc = [p \in Procs |-> "idle"]
    /\ req = [p \in Procs |-> NoReq]
    /\ loc = [p \in Procs |-> NoLoc]
    /\ sess = [p \in Procs |-> NoRow]
    /\ resp = [p \in Procs |-> NoResp]
    /\ log = [e \in Emails |-> <<>>]
    /\ todos = <<>>

\* one thread asks is_locked, the other get_remaining_attempts
VerdictMethod(p) == IF p = 1 THEN "is_locked" ELSE "get_remaining_attempts"

VerdictStep(p) ==
    \/ IsLockedAcquire(p)
    \/ IsLockedPrune(p)
    \/ IsLockedReturn(p)
    \/ GetRemainingAttemptsAcquire(p)
    \/ GetRemainingAttemptsPrune(p)
    \/ GetRemainingAttemptsReturn(p)

\* the two verdicts are asked at one instant, in either order
VerdictNext ==
    \E p \in Procs :
        \/ \E e \in Emails : CallTracker(p, VerdictMethod(p), e)
        \/ VerdictStep(p)

VerdictSpec == VerdictInit /\ [][VerdictNext]_vars

\* C38: the two verdicts of the tracker agree.  When is_locked and
\* get_remaining_attempts have both answered for one key at one instant,
\* with no failure recorded or cleared in between, is_locked answered true
\* iff get_remaining_attempts answered 0 (VerdictSpec).
C38_VerdictsAgree ==
    \A p \in Procs, q \in Procs :
       (/\ Answered(p, "is_locked")
        /\ Answered(q, "get_remaining_attempts")
        /\ req[p].email = req[q].email)
          => (resp[p].flag <=> resp[q].value = 0)

\* both have answered for a key whose window was cut down to exactly five
\* entries: locked, and no attempt remaining
C38_Witness ==
    \E p \in Procs, q \in Procs :
       /\ Answered(p, "is_locked")
       /\ Answered(q, "get_remaining_attempts")
       /\ req[p].email = req[q].email
       /\ resp[p].flag
       /\ resp[q].value = 0
       /\ Len(attempts[req[p].email]) = MAX_ATTEMPTS
       /\ now >= LOCKOUT_MINUTES

====
